---- MODULE Spec2Model ----
(***************************************************************************)
(* A model of pyld (src/pyld.py): the target registries, the staleness     *)
(* test on modification times, the recursive dependency walk of            *)
(* Target._opt_build and Target.clean, and the synthesis of the compile,   *)
(* archive/link and removal commands.                                      *)
(*                                                                         *)
(* A Python str is a sequence of atoms; the atom "." is the only one the   *)
(* code looks at (str.split(".")), every other atom stands for a run of    *)
(* characters without a dot.  "a.c" is <<"a", ".", "c">>.  String          *)
(* concatenation is \o.                                                    *)
(***************************************************************************)
EXTENDS Integers, Sequences, FiniteSets, TLC

VARIABLES
    reg,      \* the registries _targets and _external_dependencies
    fs,       \* the filesystem: existing path -> modification time
    clock,    \* the time the next write stamps on a file
    stack,    \* the call stack of _opt_build / clean frames, innermost last
    status,   \* "idle", "running", "done", "error" (an _error), "overflow"
    pass,     \* the running or last top-level call: kind, target, force
    cmds,     \* the commands handed to subprocess.run in this call, in order
    uptodate, \* targets reported "Target ... is up to date" in this call
    visited,  \* targets whose _opt_build / clean was entered in this call
    fs0,      \* the filesystem when this call started
    prev,     \* the call before this one: kind, target, force, status, failed
    since,    \* filesystem changes made between that call and this one
    pending,  \* filesystem changes made since the last call started
    visits,   \* one record per entry of visited: the commands of that visit
    plain,    \* nothing has happened but completed builds and source touches
    nev       \* number of outside events so far: top-level calls, file
              \* changes made from outside, commands that failed

vars == <<reg, fs, clock, stack, status, pass, cmds, uptodate, visited, fs0,
          prev, since, pending, visits, plain, nev>>

\* ------------------------------------------------------------------ bounds
MaxEvents == 3
MaxDepth == 3

\* ----------------------------------------------------------------- strings
Dot == "."
c_compiler == <<"gcc">>
_object_ext == <<Dot, "o">>
_dynamic_ext == <<Dot, "so">>
_static_ext == <<Dot, "a">>

\* str.split("."): the pieces between the dots, in order (never empty).
RECURSIVE SplitFrom(_, _, _)
SplitFrom(path, i, piece) ==
    IF i > Len(path) THEN <<piece>>
    ELSE IF path[i] = Dot THEN <<piece>> \o SplitFrom(path, i + 1, <<>>)
    ELSE SplitFrom(path, i + 1, Append(piece, path[i]))

Split(path) == SplitFrom(path, 1, <<>>)

_strip_extension(path) == Split(path)[1]

_change_extension(path, ext) == _strip_extension(path) \o ext

_target_type_to_extension(type) ==
    CASE type = "EXECUTABLE" -> <<>>
      [] type = "STATIC_LIB" -> _static_ext
      [] type = "DYNAMIC_LIB" -> _dynamic_ext

\* ------------------------------------------------------------- filesystem
os_path_exists(f, path) == path \in DOMAIN f

_get_opt_mod_time(f, path) ==
    IF os_path_exists(f, path) THEN f[path] ELSE -1

_cmp_timestamp(t1, t2) == t1 < 0 \/ t1 > t2

\* -------------------------------------------------------------- registries
Target(name, type, deps, sources, flags, incdirs) ==
    [name |-> name, type |-> type, output_dir |-> <<>>, deps |-> deps,
     sources |-> sources, flags |-> flags, incdirs |-> incdirs]

ExtDep(name, type, path) == [name |-> name, type |-> type, path |-> path]

get_out_path(t) ==
    IF Len(t.output_dir) > 0
    THEN t.output_dir \o <<"/">> \o t.name \o _target_type_to_extension(t.type)
    ELSE t.name \o _target_type_to_extension(t.type)

Src(n) == <<n, Dot, "c">>

Registry(ts, es) ==
    [targets |-> [n \in {t.name : t \in ts} |-> CHOOSE t \in ts : t.name = n],
     ext |-> [n \in {e.name : e \in es} |-> CHOOSE e \in es : e.name = n]]

ExtE == ExtDep(<<"E">>, "STATIC_LIB", <<"libs">>)
ExtM == ExtDep(<<"m">>, "SYSTEM_LIB", <<>>)
ExtZ == ExtDep(<<"z">>, "DYNAMIC_LIB", <<"libs">>)

\* One executable with two sources.
RegSingle ==
    Registry({Target(<<"T">>, "EXECUTABLE", <<>>, <<Src("a"), Src("b")>>,
                     <<>>, <<>>)}, {})

\* An executable over a static library, an external archive and a system lib.
RegChain ==
    Registry({Target(<<"B">>, "EXECUTABLE", <<<<"E">>, <<"A">>, <<"m">>>>,
                     <<Src("b")>>, <<<<"-O2">>>>, <<>>),
              Target(<<"A">>, "STATIC_LIB", <<>>, <<Src("a")>>, <<>>,
                     <<<<"inc">>>>)},
             {ExtE, ExtM})

\* A static library reached from two parents: from T and from T's second
\* dependency A.
RegShared ==
    Registry({Target(<<"T">>, "EXECUTABLE", <<<<"C">>, <<"A">>>>, <<>>, <<>>, <<>>),
              Target(<<"A">>, "STATIC_LIB", <<<<"C">>>>, <<>>, <<>>, <<>>),
              Target(<<"C">>, "STATIC_LIB", <<>>, <<Src("c")>>, <<>>, <<>>)},
             {})

\* An executable that names another executable as a dependency.
RegBadType ==
    Registry({Target(<<"B">>, "EXECUTABLE", <<<<"C">>>>, <<Src("b")>>, <<>>, <<>>),
              Target(<<"C">>, "EXECUTABLE", <<>>, <<Src("c")>>, <<>>, <<>>)},
             {})

\* An executable whose second dependency name is registered nowhere.
RegUnknown ==
    Registry({Target(<<"B">>, "EXECUTABLE", <<<<"A">>, <<"X">>>>, <<Src("b")>>,
                     <<>>, <<>>),
              Target(<<"A">>, "STATIC_LIB", <<>>, <<Src("a")>>, <<>>, <<>>)},
             {})

\* A dynamic library with flags, an include directory and an external archive.
RegDyn ==
    Registry({Target(<<"D">>, "DYNAMIC_LIB", <<<<"E">>>>, <<Src("d"), Src("e")>>,
                     <<<<"-g">>>>, <<<<"inc">>>>)},
             {ExtE})

\* An executable over an external dynamic library.
RegExtDyn ==
    Registry({Target(<<"P">>, "EXECUTABLE", <<<<"z">>>>, <<>>, <<>>, <<>>)},
             {ExtZ})

\* A target that lists itself as a dependency.
RegCycle ==
    Registry({Target(<<"L">>, "STATIC_LIB", <<<<"L">>>>, <<>>, <<>>, <<>>)}, {})

\* A cycle met after a dependency that has a source of its own.
RegCycleLate ==
    Registry({Target(<<"K">>, "EXECUTABLE", <<<<"A">>, <<"L">>>>, <<>>, <<>>, <<>>),
              Target(<<"A">>, "STATIC_LIB", <<>>, <<Src("a")>>, <<>>, <<>>),
              Target(<<"L">>, "STATIC_LIB", <<<<"L">>>>, <<>>, <<>>, <<>>)}, {})

Registries ==
    {RegSingle, RegChain, RegShared, RegBadType, RegUnknown, RegDyn,
     RegExtDyn, RegCycle, RegCycleLate}

_targets == reg.targets
_external_dependencies == reg.ext

Objects(t) == [k \in 1..Len(t.sources) |-> _change_extension(t.sources[k], _object_ext)]

Range(s) == {s[k] : k \in 1..Len(s)}

\* The paths the registered targets read or write.
Universe(r) ==
    UNION {Range(r.targets[n].sources) \cup Range(Objects(r.targets[n]))
           \cup {get_out_path(r.targets[n])} : n \in DOMAIN r.targets}

\* -------------------------------------------------------- command executor
\* subprocess.run(args): a gcc command that succeeds writes the file named
\* after "-o", ar writes the archive named after "rcs", rm -f removes the
\* files it lists; a command that fails changes nothing.
RECURSIVE IndexOf(_, _, _)
IndexOf(args, tok, i) ==
    IF i > Len(args) THEN 0
    ELSE IF args[i] = tok THEN i
    ELSE IndexOf(args, tok, i + 1)

Written(args) ==
    IF args[1] = <<"ar">> THEN {args[3]}
    ELSE LET k == IndexOf(args, <<"-o">>, 1)
         IN  IF k = 0 \/ k = Len(args) THEN {} ELSE {args[k + 1]}

Removed(args) == {args[k] : k \in 3..Len(args)}

subprocess_run(args, ok, f, c) ==
    IF ~ok THEN [fs |-> f, clock |-> c]
    ELSE IF args[1] = <<"rm">>
    THEN [fs |-> [p \in DOMAIN f \ Removed(args) |-> f[p]], clock |-> c]
    ELSE [fs |-> [p \in Written(args) |-> c] @@ f, clock |-> c + 1]

\* --------------------------------------------------------- command synthesis
\* Lines 178-187: the compile command of one source of target t.
CompileArgs(t, source) ==
    <<c_compiler>>
    \o (IF t.type = "DYNAMIC_LIB" THEN <<<<"-fPIC">>>> ELSE <<>>)
    \o <<<<"-c">>, source>>
    \o t.flags
    \o [k \in 1..Len(t.incdirs) |-> <<"-I">> \o t.incdirs[k]]
    \o <<<<"-o">>, _change_extension(source, _object_ext)>>

\* Lines 202-230: the walk over t.deps that collects objects and link flags;
\* err is set by the first dependency that raises.
RECURSIVE LinkDeps(_, _, _, _)
LinkDeps(t, i, objs, links) ==
    IF i > Len(t.deps) THEN [err |-> FALSE, objs |-> objs, links |-> links]
    ELSE LET dep_name == t.deps[i] IN
         IF dep_name \in DOMAIN _targets
         THEN LET dep == _targets[dep_name] IN
              IF dep.type = "STATIC_LIB"
              THEN LinkDeps(t, i + 1, Append(objs, get_out_path(dep)), links)
              ELSE [err |-> TRUE, objs |-> objs, links |-> links]
         ELSE IF dep_name \in DOMAIN _external_dependencies
         THEN LET dep == _external_dependencies[dep_name] IN
              IF dep.type = "STATIC_LIB"
              THEN LinkDeps(t, i + 1,
                            Append(objs, dep.path \o <<"/">> \o dep.name \o _static_ext),
                            links)
              ELSE IF dep.type = "SYSTEM_LIB"
              THEN LinkDeps(t, i + 1, objs, Append(links, <<"-l">> \o dep.name))
              ELSE [err |-> TRUE, objs |-> objs, links |-> links]
         ELSE [err |-> TRUE, objs |-> objs, links |-> links]

\* LinkArgs with the objects of the dependencies put before the target's own.
LinkArgsDepsFirst(t) ==
    LET own == [k \in 1..Len(t.sources) |-> _change_extension(t.sources[k], <<Dot, "o">>)]
        r == LinkDeps(t, 1, <<>>, <<>>)
        objs == r.objs \o own
        args == <<c_compiler>> \o t.flags \o objs
    IN  [err |-> r.err,
         args |->
           CASE t.type = "EXECUTABLE" ->
                  args \o <<<<"-o">>, get_out_path(t)>> \o r.links
             [] t.type = "STATIC_LIB" ->
                  <<<<"ar">>, <<"rcs">>, get_out_path(t)>> \o objs
             [] t.type = "DYNAMIC_LIB" ->
                  args \o <<<<"-shared">>, <<"-o">>, <<"-fPIC">>, get_out_path(t)>>]

\* Lines 195-251: the archive/link command of target t.
LinkArgs(t) ==
    LET own == [k \in 1..Len(t.sources) |-> _change_extension(t.sources[k], <<Dot, "o">>)]
        r == LinkDeps(t, 1, own, <<>>)
        args == <<c_compiler>> \o t.flags \o r.objs
    IN  [err |-> r.err,
         args |->
           CASE t.type = "EXECUTABLE" ->
                  args \o <<<<"-o">>, get_out_path(t)>> \o r.links
             [] t.type = "STATIC_LIB" ->
                  <<<<"ar">>, <<"rcs">>, get_out_path(t)>> \o r.objs
             [] t.type = "DYNAMIC_LIB" ->
                  args \o <<<<"-shared">>, <<"-o">>, <<"-fPIC">>, get_out_path(t)>>]

\* CleanArgs without the object files.
CleanArgsOutputOnly(t) == <<<<"rm">>, <<"-f">>, get_out_path(t)>>

\* Lines 128-132: the removal command of target t.
CleanArgs(t) ==
    <<<<"rm">>, <<"-f">>, get_out_path(t)>>
    \o [k \in 1..Len(t.sources) |-> _change_extension(t.sources[k], _object_ext)]

\* _error (lines 77-78): assert False raises, and nothing in pyld catches it:
\* the call ends there.
_error == "error"

\* ------------------------------------------------------------------- frames
\* _opt_build entered without the test of the output's existence (line 152).
OptBuildEnterOutputIgnored(n, force, timestamp, f) ==
    [t |-> n, pc |-> "deps", i |-> 1, force |-> force,
     timestamp |-> timestamp,
     target_timestamp |-> _get_opt_mod_time(f, get_out_path(_targets[n])),
     rebuild |-> FALSE]

\* Lines 148-153: entering _opt_build of target n.
OptBuildEnter(n, force, timestamp, f) ==
    LET target_timestamp == _get_opt_mod_time(f, get_out_path(_targets[n]))
    IN  [t |-> n, pc |-> "deps", i |-> 1, force |-> force,
         timestamp |-> timestamp, target_timestamp |-> target_timestamp,
         rebuild |-> (target_timestamp < 0)]

CleanEnter(n) ==
    [t |-> n, pc |-> "clean", i |-> 1, force |-> FALSE, timestamp |-> 0,
     target_timestamp |-> 0, rebuild |-> FALSE]

\* The exits of the two for loops of _opt_build (lines 156 and 170).
Settle(fr) ==
    LET t == _targets[fr.t]
        a == IF fr.pc = "deps" /\ fr.i > Len(t.deps)
             THEN [fr EXCEPT !.pc = "sources", !.i = 1] ELSE fr
    IN  IF a.pc = "sources" /\ a.i > Len(t.sources)
        THEN [a EXCEPT !.pc = "link", !.i = 1] ELSE a

Top == stack[Len(stack)]
Pop(st) == SubSeq(st, 1, Len(st) - 1)
SetTop(st, fr) == [st EXCEPT ![Len(st)] = fr]

\* The return of a call that leaves the caller's loop where it was.
ReturnNoAdvance(st, ret) ==
    IF Len(st) = 1 THEN <<>>
    ELSE LET caller == st[Len(st) - 1]
         IN  SetTop(Pop(st), [caller EXCEPT !.rebuild = caller.rebuild \/ ret])

\* Line 160-161: the callee returned ret to the frame below it.
Return(st, ret) ==
    IF Len(st) = 1 THEN <<>>
    ELSE LET caller == st[Len(st) - 1]
         IN  SetTop(Pop(st),
                    Settle([caller EXCEPT !.rebuild = caller.rebuild \/ ret,
                                          !.i = caller.i + 1]))

Failed(cs) == \E k \in 1..Len(cs) : ~cs[k].ok

Cmd(n, kind, src, args, ok) ==
    [t |-> n, kind |-> kind, src |-> src, args |-> args, ok |-> ok]

NoPass == [kind |-> "none", t |-> <<>>, force |-> FALSE]

Summary == [kind |-> pass.kind, t |-> pass.t, force |-> pass.force,
            status |-> status, failed |-> Failed(cmds)]

\* The record kept of one entry of _opt_build / clean: its target, the visit
\* that made the call (0 for the call from outside), the force flag it was
\* given, whether the target's output was missing when it was entered
\* (line 152), the positions in cmds of the commands it issued itself, what
\* it returned (line 259) and what it reported (lines 194, 257).
Visit(n, parent, force, missing, idx) ==
    [t |-> n, parent |-> parent, force |-> force, missing |-> missing,
     idx |-> idx, ret |-> "open", report |-> "none"]

\* The visit of the innermost frame: the last one entered and not returned.
TopVisit ==
    CHOOSE v \in 1..Len(visits) :
        /\ visits[v].ret = "open"
        /\ \A w \in (v + 1)..Len(visits) : visits[w].ret # "open"

\* The innermost visit hands command number k to the executor.
Issued(vs, k) == [vs EXCEPT ![TopVisit].idx = Append(@, k)]

\* The innermost visit returns (line 259; clean: line 138).
Closed(vs, rebuild, report) ==
    [vs EXCEPT ![TopVisit].ret = IF rebuild THEN "rebuilt" ELSE "same",
               ![TopVisit].report = report]

\* Whether path p is a source file of some registered target.
IsSource(p) == \E n \in DOMAIN _targets : p \in Range(_targets[n].sources)

\* subprocess.run with check=True: a failed command ends the walk.
AfterRunChecked(ok) == IF ok THEN "running" ELSE "error"

\* Lines 189, 254: subprocess.run(args) is called without check=True and its
\* CompletedProcess is dropped; the walk goes on whatever the exit status.
AfterRun(ok) == "running"

\* The loop over self.sources run from the last source to the first.
NextSourceReversed(fr) ==
    _targets[fr.t].sources[Len(_targets[fr.t].sources) - fr.i + 1]

\* Line 170: the source the loop over self.sources is at in frame fr.
NextSource(fr) == _targets[fr.t].sources[fr.i]

\* ---------------------------------------------------------------------- Init
Init ==
    /\ reg \in Registries
    /\ fs = [p \in UNION {Range(reg.targets[n].sources) : n \in DOMAIN reg.targets}
               |-> 0]
    /\ clock = 1
    /\ stack = <<>>
    /\ status = "idle"
    /\ pass = NoPass
    /\ cmds = <<>>
    /\ uptodate = <<>>
    /\ visited = <<>>
    /\ fs0 = fs
    /\ prev = [kind |-> "none", t |-> <<>>, force |-> FALSE, status |-> "idle",
               failed |-> FALSE]
    /\ since = {}
    /\ pending = {}
    /\ visits = <<>>
    /\ plain = TRUE
    /\ nev = 0

\* ------------------------------------------------------------- environment
\* A file is written from outside (created, or its modification time set).
Touch(p) ==
    /\ status # "running"
    /\ nev < MaxEvents
    /\ fs' = [q \in DOMAIN fs \cup {p} |-> IF q = p THEN clock ELSE fs[q]]
    /\ clock' = clock + 1
    /\ pending' = pending \cup {[op |-> "touch", path |-> p]}
    /\ nev' = nev + 1
    /\ plain' = (plain /\ IsSource(p))
    /\ UNCHANGED <<reg, stack, status, pass, cmds, uptodate, visited, fs0,
                   prev, since, visits>>

\* A file is removed from outside.
Delete(p) ==
    /\ status # "running"
    /\ nev < MaxEvents
    /\ p \in DOMAIN fs
    /\ fs' = [q \in DOMAIN fs \ {p} |-> fs[q]]
    /\ pending' = pending \cup {[op |-> "delete", path |-> p]}
    /\ nev' = nev + 1
    /\ plain' = FALSE
    /\ UNCHANGED <<reg, clock, stack, status, pass, cmds, uptodate, visited,
                   fs0, prev, since, visits>>

\* ------------------------------------------------------------------- build
StartPass(kind, n, force) ==
    /\ status # "running"
    /\ nev < MaxEvents
    /\ pass' = [kind |-> kind, t |-> n, force |-> force]
    /\ prev' = Summary
    /\ since' = pending
    /\ pending' = {}
    /\ fs0' = fs
    /\ uptodate' = <<>>
    /\ visited' = <<n>>
    /\ plain' = (plain /\ kind = "build" /\ status \in {"idle", "done"}
                       /\ ~Failed(cmds))
    /\ status' = "running"

\* Target.build (lines 140-142) up to the first loop of _opt_build.
Build(n, force) ==
    /\ StartPass("build", n, force)
    /\ stack' = <<Settle(OptBuildEnter(n, force,
                     _get_opt_mod_time(fs, get_out_path(_targets[n])), fs))>>
    /\ cmds' = <<>>
    /\ visits' = <<Visit(n, 0, force,
                         ~os_path_exists(fs, get_out_path(_targets[n])), <<>>)>>
    /\ nev' = nev + 1
    /\ UNCHANGED <<reg, fs, clock>>

\* Resolve with an unregistered name passed over like an external dependency.
ResolveLenient(dep_name) ==
    IF dep_name \in DOMAIN _targets THEN "target" ELSE "external"

\* Resolve with a visited-set: a Target whose visit is still in progress is
\* passed over instead of being entered again.
ResolveVisited(dep_name) ==
    IF dep_name \in DOMAIN _targets
    THEN IF \E k \in 1..Len(stack) : stack[k].t = dep_name
         THEN "external" ELSE "target"
    ELSE IF dep_name \in DOMAIN _external_dependencies THEN "external"
    ELSE "unknown"

\* Lines 157, 163, 166: what a dependency name resolves to in the walk.
Resolve(dep_name) ==
    IF dep_name \in DOMAIN _targets THEN "target"
    ELSE IF dep_name \in DOMAIN _external_dependencies THEN "external"
    ELSE "unknown"

\* One iteration of the loop over self.deps (lines 156-167).
DepStep ==
    /\ status = "running"
    /\ Top.pc = "deps"
    /\ LET fr == Top
           dep_name == _targets[fr.t].deps[fr.i]
       IN  IF Resolve(dep_name) = "target"
           THEN IF Len(stack) < MaxDepth
                THEN /\ stack' = Append(stack,
                          Settle(OptBuildEnter(dep_name, fr.force,
                                               fr.target_timestamp, fs)))
                     /\ visited' = Append(visited, dep_name)
                     /\ visits' = Append(visits,
                          Visit(dep_name, TopVisit, fr.force,
                                ~os_path_exists(fs, get_out_path(_targets[dep_name])),
                                <<>>))
                     /\ status' = status
                ELSE /\ status' = "overflow"
                     /\ UNCHANGED <<stack, visited, visits>>
           ELSE IF Resolve(dep_name) = "external"
           THEN /\ stack' = SetTop(stack, Settle([fr EXCEPT !.i = fr.i + 1]))
                /\ UNCHANGED <<status, visited, visits>>
           ELSE /\ status' = _error
                /\ UNCHANGED <<stack, visited, visits>>
    /\ UNCHANGED <<reg, fs, clock, pass, cmds, uptodate, fs0, prev, since,
                   pending, plain, nev>>

\* The compile test of line 175 without its `or force`.
SourceStaleUnforced(fr, source, obj) ==
    \/ _cmp_timestamp(_get_opt_mod_time(fs, source), fr.target_timestamp)
    \/ ~os_path_exists(fs, obj)

\* Line 175: whether a source is compiled in the visit of frame fr.
SourceStale(fr, source, obj) ==
    \/ _cmp_timestamp(_get_opt_mod_time(fs, source), fr.target_timestamp)
    \/ ~os_path_exists(fs, obj)
    \/ fr.force

\* Line 193: whether the visit of frame fr issues the archive/link command.
ShouldLink(fr) == fr.rebuild \/ fr.force

\* One iteration of the loop over self.sources (lines 170-191).
SourceStep ==
    /\ status = "running"
    /\ Top.pc = "sources"
    /\ LET fr == Top
           t == _targets[fr.t]
           source == NextSource(fr)
           obj == _change_extension(source, _object_ext)
       IN  IF ~os_path_exists(fs, source)
           THEN /\ status' = _error
                /\ UNCHANGED <<stack, fs, clock, cmds, nev, visits>>
           ELSE IF SourceStale(fr, source, obj)
           THEN \E ok \in {b \in BOOLEAN : b \/ nev < MaxEvents} :
                  /\ LET args == CompileArgs(t, source)
                         r == subprocess_run(args, ok, fs, clock)
                     IN  /\ cmds' = Append(cmds, Cmd(fr.t, "compile", source, args, ok))
                         /\ visits' = Issued(visits, Len(cmds) + 1)
                         /\ fs' = r.fs
                         /\ clock' = r.clock
                  /\ nev' = IF ok THEN nev ELSE nev + 1
                  /\ stack' = SetTop(stack,
                         Settle([fr EXCEPT !.rebuild = TRUE, !.i = fr.i + 1]))
                  /\ status' = AfterRun(ok)
           ELSE /\ stack' = SetTop(stack, Settle([fr EXCEPT !.i = fr.i + 1]))
                /\ UNCHANGED <<status, fs, clock, cmds, nev, visits>>
    /\ UNCHANGED <<reg, pass, uptodate, visited, fs0, prev, since, pending,
                   plain>>

\* The archive/link step and the return (lines 193-259).
LinkStep ==
    /\ status = "running"
    /\ Top.pc = "link"
    /\ LET fr == Top
           t == _targets[fr.t]
           l == LinkArgs(t)
       IN  IF ShouldLink(fr)
           THEN IF l.err
                THEN /\ status' = _error
                     /\ UNCHANGED <<stack, fs, clock, cmds, nev, uptodate,
                                    visits>>
                ELSE \E ok \in {b \in BOOLEAN : b \/ nev < MaxEvents} :
                       /\ LET r == subprocess_run(l.args, ok, fs, clock)
                          IN  /\ fs' = r.fs
                              /\ clock' = r.clock
                       /\ cmds' = Append(cmds, Cmd(fr.t, "link", <<>>, l.args, ok))
                       /\ visits' = Closed(Issued(visits, Len(cmds) + 1),
                                           fr.rebuild, "built")
                       /\ nev' = IF ok THEN nev ELSE nev + 1
                       /\ stack' = Return(stack, fr.rebuild)
                       /\ status' = IF AfterRun(ok) = "running" /\ Len(stack) = 1
                                     THEN "done" ELSE AfterRun(ok)
                       /\ UNCHANGED uptodate
           ELSE /\ uptodate' = Append(uptodate, fr.t)
                /\ visits' = Closed(visits, fr.rebuild, "uptodate")
                /\ stack' = Return(stack, fr.rebuild)
                /\ status' = IF Len(stack) = 1 THEN "done" ELSE status
                /\ UNCHANGED <<fs, clock, cmds, nev>>
    /\ UNCHANGED <<reg, pass, visited, fs0, prev, since, pending, plain>>

\* ------------------------------------------------------------------- clean
\* Lines 127-134: the removal command of target n, handed to the executor.
CleanRun(n, ok) ==
    LET args == CleanArgs(_targets[n])
        r == subprocess_run(args, ok, fs, clock)
    IN  /\ cmds' = Append(IF status = "running" THEN cmds ELSE <<>>,
                          Cmd(n, "rm", <<>>, args, ok))
        /\ fs' = r.fs
        /\ clock' = r.clock

\* Target.clean called from outside (lines 126-134).
Clean(n) ==
    /\ StartPass("clean", n, FALSE)
    /\ \E ok \in {b \in BOOLEAN : b \/ nev + 1 < MaxEvents} :
         /\ CleanRun(n, ok)
         /\ nev' = IF ok THEN nev + 1 ELSE nev + 2
    /\ stack' = <<CleanEnter(n)>>
    /\ visits' = <<Visit(n, 0, FALSE,
                         ~os_path_exists(fs, get_out_path(_targets[n])), <<1>>)>>
    /\ UNCHANGED reg

\* One iteration of the loop over self.deps of clean, or its return
\* (lines 135-138).
CleanStep ==
    /\ status = "running"
    /\ Top.pc = "clean"
    /\ LET fr == Top
           t == _targets[fr.t]
       IN  IF fr.i > Len(t.deps)
           THEN /\ stack' = IF Len(stack) = 1 THEN <<>>
                            ELSE SetTop(Pop(stack),
                                   [stack[Len(stack) - 1] EXCEPT !.i = @ + 1])
                /\ status' = IF Len(stack) = 1 THEN "done" ELSE status
                /\ visits' = Closed(visits, FALSE, "none")
                /\ UNCHANGED <<fs, clock, cmds, nev, visited>>
           ELSE IF t.deps[fr.i] \in DOMAIN _targets
           THEN IF Len(stack) < MaxDepth
                THEN /\ \E ok \in {b \in BOOLEAN : b \/ nev < MaxEvents} :
                          /\ CleanRun(t.deps[fr.i], ok)
                          /\ nev' = IF ok THEN nev ELSE nev + 1
                     /\ stack' = Append(stack, CleanEnter(t.deps[fr.i]))
                     /\ visited' = Append(visited, t.deps[fr.i])
                     /\ visits' = Append(visits,
                          Visit(t.deps[fr.i], TopVisit, FALSE,
                                ~os_path_exists(fs,
                                    get_out_path(_targets[t.deps[fr.i]])),
                                <<Len(cmds) + 1>>))
                     /\ status' = status
                ELSE /\ status' = "overflow"
                     /\ UNCHANGED <<stack, fs, clock, cmds, nev, visited, visits>>
           ELSE /\ stack' = SetTop(stack, [fr EXCEPT !.i = fr.i + 1])
                /\ UNCHANGED <<status, fs, clock, cmds, nev, visited, visits>>
    /\ UNCHANGED <<reg, pass, uptodate, fs0, prev, since, pending, plain>>

\* -------------------------------------------------------------------- Next
Next ==
    \/ \E p \in Universe(reg) : Touch(p)
    \/ \E p \in DOMAIN fs : Delete(p)
    \/ \E n \in DOMAIN _targets, force \in BOOLEAN : Build(n, force)
    \/ \E n \in DOMAIN _targets : Clean(n)
    \/ DepStep
    \/ SourceStep
    \/ LinkStep
    \/ CleanStep

Spec == Init /\ [][Next]_vars

\* ------------------------------------------------------------ vocabulary
Names == DOMAIN _targets

\* The commands of this call issued for target n, of one kind.
CmdsFor(n, kind) == {k \in 1..Len(cmds) : cmds[k].t = n /\ cmds[k].kind = kind}

Compiles == {k \in 1..Len(cmds) : cmds[k].kind = "compile"}
Links == {k \in 1..Len(cmds) : cmds[k].kind = "link"}

TargetDeps(n) == {d \in Range(_targets[n].deps) : d \in Names}

\* The targets reachable from n through deps in at most fuel steps, n included.
RECURSIVE ReachIn(_, _)
ReachIn(n, fuel) ==
    IF fuel = 0 THEN {n}
    ELSE {n} \cup UNION {ReachIn(d, fuel - 1) : d \in TargetDeps(n)}

Reach(n) == ReachIn(n, Cardinality(Names))

\* a = n, or a (transitively) depends on n.
IsAncestorOrSelf(a, n) == n \in Reach(a)

Count(seq, x) == Cardinality({k \in 1..Len(seq) : seq[k] = x})

\* Every visit of this call has ended in the report "is up to date".
AllReportedUpToDate == \A n \in Names : Count(uptodate, n) = Count(visited, n)

\* This call is the second of two successive build(force=false) of one target,
\* the first completed, none of its commands failed, nothing changed between.
SecondBuildInARow ==
    /\ pass.kind = "build" /\ ~pass.force
    /\ prev.kind = "build" /\ ~prev.force /\ prev.t = pass.t
    /\ prev.status = "done" /\ ~prev.failed
    /\ since = {}

\* C1: the second of two successive builds of one target, with no filesystem
\* change in between and every command of the first one succeeding, issues no
\* compile and no archive/link command, and on completion has reported every
\* visited target as up to date.
C1_Idempotence ==
    SecondBuildInARow =>
        /\ cmds = <<>>
        /\ status = "done" => AllReportedUpToDate

\* C1 without DynamicLib targets in the walk: the part of the claim that does
\* not rest on the link command of a dynamic library.
C1_IdempotenceNoDynamicLib ==
    (SecondBuildInARow
     /\ \A n \in Reach(pass.t) : _targets[n].type # "DYNAMIC_LIB") =>
        /\ cmds = <<>>
        /\ status = "done" => AllReportedUpToDate

\* The top-level target's output was missing when the call started, while all
\* its sources and all their object files existed, and force is false.
OnlyOutputMissing ==
    /\ pass.kind = "build" /\ ~pass.force
    /\ ~os_path_exists(fs0, get_out_path(_targets[pass.t]))
    /\ \A s \in Range(_targets[pass.t].sources) :
         /\ os_path_exists(fs0, s)
         /\ os_path_exists(fs0, _change_extension(s, _object_ext))

\* C2: when only the output of T is missing, build(T) issues no compile command
\* for a source of T and, on completion, has issued the archive/link command
\* of T.
C2_MissingOutputRelinksOnly ==
    OnlyOutputMissing =>
        /\ CmdsFor(pass.t, "compile") = {}
        /\ status = "done" => CmdsFor(pass.t, "link") # {}

\* Target n has a declared source that does not exist.
MissingSource(f, n) ==
    \E s \in Range(_targets[n].sources) : ~os_path_exists(f, s)

\* C3: in a build, no compile and no archive/link command is issued for a
\* target with a missing source file, or for a target that depends on it.
C3_MissingSourceNoCommands ==
    pass.kind = "build" =>
        \A n \in Names :
            MissingSource(fs0, n) =>
                \A k \in 1..Len(cmds) : ~IsAncestorOrSelf(cmds[k].t, n)

\* Target n names a registered Target of type Executable or DynamicLib in deps.
HasInvalidDep(n) ==
    \E d \in TargetDeps(n) : _targets[d].type \in {"EXECUTABLE", "DYNAMIC_LIB"}

\* C4: a build of a target with a dependency of an invalid type never
\* completes: it ends in a fatal error whatever the filesystem holds.
C4_InvalidDepAlwaysFatal ==
    (pass.kind = "build" /\ HasInvalidDep(pass.t)) => status # "done"

\* The running build has just aborted in the link step of a target with a
\* dependency of an invalid type.
AbortedOnInvalidDep ==
    /\ pass.kind = "build" /\ status = "error"
    /\ Top.pc = "link" /\ HasInvalidDep(Top.t)
    /\ Top.t = pass.t

\* C5: when build(B) aborts because of a dependency of an invalid type, no
\* command has been handed to the executor before the abort.
C5_InvalidDepAbortsBeforeCommands ==
    AbortedOnInvalidDep => cmds = <<>>

\* The targets that own source s.
Owners(s) == {n \in Names : s \in Range(_targets[n].sources)}

\* The targets of the walk from a down to b: reachable from a, reaching b.
OnPath(a, b) == {n \in Reach(a) : b \in Reach(n)}

\* This build(force=false) of T follows a completed build of T whose commands
\* all succeeded, and since then exactly source s, owned by target o of T's
\* subgraph, was given a modification time newer than o's output; no command
\* of this build has failed.
TouchedAfterBuild(s, o) ==
    /\ pass.kind = "build" /\ ~pass.force
    /\ prev.kind = "build" /\ prev.t = pass.t
    /\ prev.status = "done" /\ ~prev.failed
    /\ since = {[op |-> "touch", path |-> s]}
    /\ Owners(s) = {o} /\ o \in Reach(pass.t)
    /\ fs0[s] > _get_opt_mod_time(fs0, get_out_path(_targets[o]))
    /\ ~Failed(cmds)

\* The commands a build may issue after the touch of s, owned by o: compile
\* commands for s only, one on completion, and archive/link commands only for
\* targets on the walk from the built target down to o.
MinimalRebuild(s, o) ==
    /\ \A k \in Compiles : cmds[k].src = s /\ cmds[k].t = o
    /\ Cardinality(Compiles) <= 1
    /\ status = "done" => Cardinality(Compiles) = 1
    /\ \A k \in Links : cmds[k].t \in OnPath(pass.t, o)

\* C6: after a completed build of T, touching exactly one source s makes the
\* next build(force=false) issue exactly one compile command, for s, and
\* archive/link commands only for the owner of s and the targets between T and
\* that owner.
C6_TouchMinimalRebuild ==
    \A o \in Names : \A s \in Range(_targets[o].sources) :
        TouchedAfterBuild(s, o) => MinimalRebuild(s, o)

\* C6 without DynamicLib targets in the walk.
C6_TouchMinimalRebuildNoDynamicLib ==
    \A o \in Names : \A s \in Range(_targets[o].sources) :
        (TouchedAfterBuild(s, o)
         /\ \A n \in Reach(pass.t) : _targets[n].type # "DYNAMIC_LIB")
        => MinimalRebuild(s, o)

\* Name d is in neither registry.
Unregistered(d) == d \notin Names /\ d \notin DOMAIN _external_dependencies

\* Target n lists a name that is in neither registry.
HasUnknownDep(n) == \E d \in Range(_targets[n].deps) : Unregistered(d)

\* The position in n's deps of the first name that is in neither registry.
FirstUnknown(n) ==
    CHOOSE i \in 1..Len(_targets[n].deps) :
        /\ Unregistered(_targets[n].deps[i])
        /\ \A j \in 1..(i - 1) : ~Unregistered(_targets[n].deps[j])

\* C7: a build that visits a target with an unregistered dependency name never
\* completes: the visit of that target never gets past that name in the
\* dependency walk (where it ends in the fatal error, whatever force and the
\* filesystem are), and no compile or archive/link command is issued for that
\* target.
C7_UnknownDepFatal ==
    pass.kind = "build" =>
        \A n \in Range(visited) :
            HasUnknownDep(n) =>
                /\ status # "done"
                /\ \A k \in 1..Len(stack) :
                     stack[k].t = n =>
                        stack[k].pc = "deps" /\ stack[k].i <= FirstUnknown(n)
                /\ CmdsFor(n, "compile") = {} /\ CmdsFor(n, "link") = {}

\* The dependency walk of the built target has aborted on an unregistered
\* name, after the commands of an earlier dependency were issued.
C7_Witness ==
    /\ pass.kind = "build" /\ status = "error"
    /\ Top.t = pass.t /\ Top.pc = "deps"
    /\ Unregistered(_targets[Top.t].deps[Top.i])
    /\ cmds # <<>>

RECURSIVE Flatten(_)
Flatten(ss) == IF ss = <<>> THEN <<>> ELSE Head(ss) \o Flatten(Tail(ss))

\* What dependency name d adds to the object list of a dependent.
DepObject(d) ==
    IF d \in Names
    THEN IF _targets[d].type = "STATIC_LIB"
         THEN <<get_out_path(_targets[d])>> ELSE <<>>
    ELSE IF d \in DOMAIN _external_dependencies
            /\ _external_dependencies[d].type = "STATIC_LIB"
    THEN <<_external_dependencies[d].path \o <<"/">> \o d \o <<Dot, "a">>>>
    ELSE <<>>

\* What dependency name d adds to the link flags of a dependent.
DepLinkFlag(d) ==
    IF d \notin Names /\ d \in DOMAIN _external_dependencies
       /\ _external_dependencies[d].type = "SYSTEM_LIB"
    THEN <<<<"-l">> \o d>> ELSE <<>>

ExpectedObjects(t) ==
    Objects(t) \o Flatten([k \in 1..Len(t.deps) |-> DepObject(t.deps[k])])

ExpectedLinkFlags(t) ==
    Flatten([k \in 1..Len(t.deps) |-> DepLinkFlag(t.deps[k])])

\* C8: the object list of every archive/link command is the target's own
\* objects in sources order followed by what its dependencies contribute in
\* deps order (the output of a StaticLib target, <path>/<name>.a of a
\* StaticLib external dependency); a SystemLib external dependency adds no
\* object but -l<name> after -o <output> of an Executable.
C8_ObjectListInDeclaredOrder ==
    \A k \in Links :
        LET t == _targets[cmds[k].t]
            args == cmds[k].args
            first == 2 + Len(t.flags)
        IN  CASE t.type = "EXECUTABLE" ->
                   args = <<c_compiler>> \o t.flags \o ExpectedObjects(t)
                          \o <<<<"-o">>, get_out_path(t)>>
                          \o ExpectedLinkFlags(t)
              [] t.type = "STATIC_LIB" ->
                   args = <<<<"ar">>, <<"rcs">>, get_out_path(t)>>
                          \o ExpectedObjects(t)
              [] t.type = "DYNAMIC_LIB" ->
                   SubSeq(args, first, first + Len(ExpectedObjects(t)) - 1)
                     = ExpectedObjects(t)

\* An executable with a source, an external archive, a static library target
\* and a system library, in that order, has been linked.
C8_Witness ==
    \E k \in Links :
        LET t == _targets[cmds[k].t]
        IN  /\ t.type = "EXECUTABLE"
            /\ Len(ExpectedObjects(t)) = 3
            /\ ExpectedObjects(t)[2] = <<"libs", "/", "E", Dot, "a">>
            /\ ExpectedObjects(t)[3] = <<"A", Dot, "a">>
            /\ ExpectedLinkFlags(t) = <<<<"-l", "m">>>>
            /\ cmds[k].ok

\* The targets clean(n) visits, in the order it enters them.
RECURSIVE CleanOrder(_, _)
CleanOrder(n, fuel) ==
    IF fuel = 0 THEN <<>>
    ELSE <<n>> \o Flatten([k \in 1..Len(_targets[n].deps) |->
                   IF _targets[n].deps[k] \in Names
                   THEN CleanOrder(_targets[n].deps[k], fuel - 1)
                   ELSE <<>>])

\* The strings derived from an external dependency.
ExtStrings ==
    UNION {{e.name, e.path, e.path \o <<"/">> \o e.name \o _static_ext,
            e.path \o <<"/">> \o e.name \o _dynamic_ext} \ (Names \cup {<<>>})
           : e \in {_external_dependencies[n] :
                       n \in DOMAIN _external_dependencies}}

\* C9: clean(B) issues, for B and then recursively for every name in deps that
\* is a registered Target, one removal command listing the target's output and
\* the object file of each of its sources; no removal command names a path of
\* an ExternalDependency, and no name in deps makes clean fail.
C9_CleanRecursion ==
    pass.kind = "clean" =>
        /\ status # "error"
        /\ Len(cmds) = Len(visited)
        /\ \A k \in 1..Len(cmds) :
             /\ cmds[k].kind = "rm" /\ cmds[k].t = visited[k]
             /\ cmds[k].args = <<<<"rm">>, <<"-f">>,
                                 get_out_path(_targets[visited[k]])>>
                               \o Objects(_targets[visited[k]])
             /\ Range(cmds[k].args) \cap ExtStrings = {}
        /\ status = "done" => visited = CleanOrder(pass.t, MaxDepth)

\* clean of a target with a source, a Target dependency and external
\* dependencies has completed.
C9_Witness ==
    /\ pass.kind = "clean" /\ status = "done"
    /\ Len(visited) = 2
    /\ Len(_targets[pass.t].sources) > 0
    /\ \E d \in Range(_targets[pass.t].deps) : d \in DOMAIN _external_dependencies
    /\ \A k \in 1..Len(cmds) : cmds[k].ok

\* C10: the link command of a DynamicLib target holds every object, has the
\* object list and -fPIC before -o, and has the output path right after -o.
C10_DynamicLibLinkForm ==
    \A k \in Links :
        LET t == _targets[cmds[k].t]
            args == cmds[k].args
            o == IndexOf(args, <<"-o">>, 1)
        IN  t.type = "DYNAMIC_LIB" =>
              /\ o > 0 /\ o < Len(args)
              /\ args[o + 1] = get_out_path(t)
              /\ \E j \in 1..(o - 1) : args[j] = <<"-fPIC">>
              /\ \A x \in Range(ExpectedObjects(t)) :
                   \E j \in 1..(o - 1) : args[j] = x

\* ------------------------------------------------------------------ visits
VisitIds == 1..Len(visits)

\* The visits entered by a call made from visit v.
ChildrenOf(v) == {c \in VisitIds : visits[c].parent = v}

\* The positions in cmds of the commands visit v issued itself, of one kind.
OwnCmds(v, kind) ==
    {k \in Range(visits[v].idx) : cmds[k].kind = kind}

VisitReturned(v) == visits[v].ret # "open"

\* C11: in a build, every visit of a target t that has returned issued
\* exactly one archive/link command for t if force was set, or t's output
\* was missing when the visit began, or the visit compiled a source of t, or
\* a call made from the visit on a Target dependency rebuilt it; otherwise
\* the visit issued no command at all and reported t up to date.
C11_RebuildDecision ==
    pass.kind = "build" =>
      \A v \in VisitIds :
        VisitReturned(v) =>
          IF \/ visits[v].force
             \/ visits[v].missing
             \/ OwnCmds(v, "compile") # {}
             \/ \E c \in ChildrenOf(v) : OwnCmds(c, "link") # {}
          THEN /\ Cardinality(OwnCmds(v, "link")) = 1
               /\ \A k \in OwnCmds(v, "link") : cmds[k].t = visits[v].t
               /\ visits[v].report = "built"
          ELSE /\ visits[v].idx = <<>>
               /\ visits[v].report = "uptodate"

\* An unforced visit whose output existed and which compiled nothing has
\* linked because a dependency was rebuilt under it; another visit of the
\* same call was reported up to date.
C11_Witness ==
    /\ pass.kind = "build"
    /\ \E v \in VisitIds :
         /\ VisitReturned(v)
         /\ ~visits[v].force /\ ~visits[v].missing
         /\ OwnCmds(v, "compile") = {}
         /\ \E c \in ChildrenOf(v) : OwnCmds(c, "link") # {}
         /\ OwnCmds(v, "link") # {}
    /\ \E v \in VisitIds : visits[v].report = "uptodate"

\* Visits v and w are of the same target, w the later one, and were called
\* from visits of two different parent targets.
SecondVisit(v, w) ==
    /\ v < w
    /\ visits[v].t = visits[w].t
    /\ visits[v].parent # 0 /\ visits[w].parent # 0
    /\ visits[visits[v].parent].t # visits[visits[w].parent].t

\* C12: within one build, whatever the value of force, when the same
\* dependency Target is reached from two parents, the second visit issues no
\* compile and no link command for it.
C12_SecondVisitIssuesNothing ==
    pass.kind = "build" =>
      \A v, w \in VisitIds : SecondVisit(v, w) => visits[w].idx = <<>>

\* The same for builds with force = false in which no command failed.
C12_SecondVisitIssuesNothingUnforced ==
    (pass.kind = "build" /\ ~pass.force /\ ~Failed(cmds)) =>
      \A v, w \in VisitIds : SecondVisit(v, w) => visits[w].idx = <<>>

\* A forced build in which every command succeeded has visited a dependency
\* a second time and issued commands for it again.
C12_ForcedSecondVisit ==
    /\ pass.kind = "build" /\ pass.force /\ ~Failed(cmds)
    /\ \E v, w \in VisitIds : SecondVisit(v, w) /\ visits[w].idx # <<>>

\* An unforced build has rebuilt a dependency in its first visit and
\* returned from its second.
C12_UnforcedSecondVisit ==
    /\ pass.kind = "build" /\ ~pass.force /\ ~Failed(cmds)
    /\ \E v, w \in VisitIds :
         SecondVisit(v, w) /\ visits[v].idx # <<>> /\ VisitReturned(w)

\* Visit w is visit v or was entered, directly or not, from visit v.
RECURSIVE WithinVisit(_, _)
WithinVisit(v, w) ==
    IF w = v THEN TRUE
    ELSE IF w < v THEN FALSE
    ELSE WithinVisit(v, visits[w].parent)

\* The positions in cmds of every command issued in the subtree of visit v.
SubtreeCmds(v) ==
    UNION {Range(visits[w].idx) : w \in {x \in VisitIds : WithinVisit(v, x)}}

\* The j-th visit entered from visit v.
ChildAt(v, j) ==
    CHOOSE c \in ChildrenOf(v) :
        Cardinality({d \in ChildrenOf(v) : d <= c}) = j

\* The names in deps of target n that are registered Targets, in order.
TargetDepSeq(n) == SelectSeq(_targets[n].deps, LAMBDA d : d \in Names)

\* The position of source s in the sources of target n.
SourceIndex(n, s) ==
    CHOOSE i \in 1..Len(_targets[n].sources) : _targets[n].sources[i] = s

\* C13: in the command sequence of one build, for every visit of a target t:
\* the visits made from it are of t's Target dependencies in declared order,
\* each one's commands all come before those of the next and before every
\* command of t itself, t's compile commands are in sources order, and t's
\* archive/link command comes after them.
C13_BottomUpOrdering ==
    pass.kind = "build" =>
      \A v \in VisitIds :
        LET n == visits[v].t
            own == visits[v].idx
            kids == ChildrenOf(v)
        IN  /\ Cardinality(kids) <= Len(TargetDepSeq(n))
            /\ \A j \in 1..Cardinality(kids) :
                 visits[ChildAt(v, j)].t = TargetDepSeq(n)[j]
            /\ \A c, d \in kids :
                 c < d => /\ VisitReturned(c)
                          /\ \A k \in SubtreeCmds(c), m \in SubtreeCmds(d) : k < m
            /\ \A c \in kids :
                 \A k \in SubtreeCmds(c), m \in Range(own) : k < m
            /\ \A a, b \in 1..Len(own) :
                 a < b =>
                   /\ own[a] < own[b]
                   /\ cmds[own[a]].kind = "compile"
                   /\ cmds[own[a]].t = n
                   /\ cmds[own[b]].kind = "compile" =>
                        SourceIndex(n, cmds[own[a]].src)
                          < SourceIndex(n, cmds[own[b]].src)
            /\ \A a \in 1..Len(own) :
                 cmds[own[a]].kind = "link" => a = Len(own) /\ cmds[own[a]].t = n

\* A build has completed in which one visit made two calls on dependencies,
\* commands were issued under each of them, and it then issued its own.
C13_Witness ==
    /\ pass.kind = "build" /\ status = "done"
    /\ \E v \in VisitIds :
         /\ Cardinality(ChildrenOf(v)) = 2
         /\ \A c \in ChildrenOf(v) : SubtreeCmds(c) # {}
         /\ visits[v].idx # <<>>

\* C14: a forced build that completes has issued, for the built target and
\* every Target reachable from it through deps, a compile command for every
\* source and an archive/link command, whatever files existed before.
C14_ForcePropagation ==
    (pass.kind = "build" /\ pass.force /\ status = "done") =>
      \A n \in Reach(pass.t) :
        /\ \A s \in Range(_targets[n].sources) :
             \E k \in CmdsFor(n, "compile") : cmds[k].src = s
        /\ CmdsFor(n, "link") # {}
        /\ \A v \in VisitIds : visits[v].force

\* A forced build of a target with a Target dependency has completed although
\* every output and object existed and was newer than the sources before it.
C14_Witness ==
    /\ pass.kind = "build" /\ pass.force /\ status = "done"
    /\ Cardinality(Reach(pass.t)) > 1
    /\ \A n \in Reach(pass.t) :
         /\ os_path_exists(fs0, get_out_path(_targets[n]))
         /\ \A s \in Range(_targets[n].sources) :
              /\ os_path_exists(fs0, _change_extension(s, _object_ext))
              /\ fs0[s] < fs0[get_out_path(_targets[n])]

\* The fatal error the walk stopped at is one the code raises itself: an
\* unregistered dependency name (line 167), a missing source (line 173) or a
\* dependency that cannot be linked (lines 207, 213, 228, 230).
AbortExplained ==
    /\ stack # <<>>
    /\ LET fr == Top
           t == _targets[fr.t]
       IN  \/ fr.pc = "deps" /\ Unregistered(t.deps[fr.i])
           \/ fr.pc = "sources" /\ ~os_path_exists(fs, t.sources[fr.i])
           \/ fr.pc = "link" /\ LinkArgs(t).err

\* C15: the exit status of a command never aborts a build: a build that
\* stopped in a fatal error stopped at an error of its own, and every visit
\* that has returned after a failed compile command has still issued the
\* archive/link command of its target.
C15_ExitStatusIgnored ==
    pass.kind = "build" =>
      /\ (status = "error" /\ pending = {}) => AbortExplained
      /\ \A v \in VisitIds :
           (VisitReturned(v) /\ \E k \in OwnCmds(v, "compile") : ~cmds[k].ok)
             => \E m \in OwnCmds(v, "link") :
                  \A k \in OwnCmds(v, "compile") : k < m

\* A build has completed in which a compile command of a dependency failed:
\* the dependency was archived all the same and its parent was linked after.
C15_Witness ==
    /\ pass.kind = "build" /\ status = "done"
    /\ \E v \in VisitIds :
         /\ visits[v].parent # 0
         /\ \E k \in OwnCmds(v, "compile") : ~cmds[k].ok
         /\ \E m \in OwnCmds(v, "link") :
              \E p \in OwnCmds(visits[v].parent, "link") : m < p

\* Target n lies on a cycle of registered Targets.
OnCycle(n) == \E d \in TargetDeps(n) : n \in Reach(d)

\* A cycle of registered Targets is reachable from n through deps.
CycleReachable(n) == \E m \in Reach(n) : OnCycle(m)

\* C16 as stated: build or clean of a target from which a cycle is reachable,
\* with no unregistered name anywhere under it, only ever recurses: it neither
\* completes nor stops in a fatal error.
C16_CycleRecursesUnlessUnknown ==
    (pass.kind # "none" /\ CycleReachable(pass.t)
       /\ \A m \in Reach(pass.t) : ~HasUnknownDep(m))
      => status \in {"running", "overflow"}

\* C16: build or clean of a target from which a cycle of registered Targets
\* is reachable never completes; it recurses until the stack is exhausted
\* unless a build meets one of its own fatal errors first, and clean meets
\* none.
C16_CycleNeverReturns ==
    (pass.kind # "none" /\ CycleReachable(pass.t)) =>
      /\ status \in {"running", "overflow", "error"}
      /\ status = "error" =>
           /\ pass.kind = "build"
           /\ pending = {} => AbortExplained
      /\ status = "overflow" =>
           /\ Len(stack) = MaxDepth
           /\ OnCycle(Top.t)

\* A build has rebuilt a dependency, then entered a cycle and exhausted the
\* stack with the same target on it twice.
C16_Witness ==
    /\ pass.kind = "build" /\ status = "overflow"
    /\ cmds # <<>>
    /\ \E i, j \in 1..Len(stack) : i < j /\ stack[i].t = stack[j].t

\* The same for clean.
C16_WitnessClean ==
    /\ pass.kind = "clean" /\ status = "overflow"
    /\ \E i, j \in 1..Len(stack) : i < j /\ stack[i].t = stack[j].t

\* -------------------------------------------------- source paths with dots
\* Source paths a.c, ./src/a.c, ../a.c, a.b.c and src/b.c.
PathSamples ==
    {<<"a", Dot, "c">>,
     <<Dot, "/src/a", Dot, "c">>,
     <<Dot, Dot, "/a", Dot, "c">>,
     <<"a", Dot, "b", Dot, "c">>,
     <<"src/b", Dot, "c">>}

\* One executable over a system library, with two different sources.
RegPaths(p, q) ==
    Registry({Target(<<"P">>, "EXECUTABLE", <<<<"m">>>>, <<p, q>>, <<>>, <<>>)},
             {ExtM})

PathRegistries == {RegPaths(p, q) : p \in PathSamples, q \in PathSamples} \
                  {RegPaths(p, p) : p \in PathSamples}

InitPaths ==
    /\ reg \in PathRegistries
    /\ fs = [p \in UNION {Range(reg.targets[n].sources) : n \in DOMAIN reg.targets}
               |-> 0]
    /\ clock = 1
    /\ stack = <<>>
    /\ status = "idle"
    /\ pass = NoPass
    /\ cmds = <<>>
    /\ uptodate = <<>>
    /\ visited = <<>>
    /\ fs0 = fs
    /\ prev = [kind |-> "none", t |-> <<>>, force |-> FALSE, status |-> "idle",
               failed |-> FALSE]
    /\ since = {}
    /\ pending = {}
    /\ visits = <<>>
    /\ plain = TRUE
    /\ nev = 0

SpecPaths == InitPaths /\ [][Next]_vars

\* The position of the last dot of a path, 0 if it has none.
LastDot(path) ==
    IF \E i \in 1..Len(path) : path[i] = Dot
    THEN CHOOSE i \in 1..Len(path) :
           path[i] = Dot /\ \A j \in (i + 1)..Len(path) : path[j] # Dot
    ELSE 0

\* The path with only its final extension replaced by ext.
ReplaceFinalExtension(path, ext) ==
    IF LastDot(path) = 0 THEN path \o ext
    ELSE SubSeq(path, 1, LastDot(path) - 1) \o ext

\* The argument that follows -o in a command.
OutputArg(args) == args[IndexOf(args, <<"-o">>, 1) + 1]

\* C17: the object file of a source is the source path with only its final
\* extension replaced by .o, also for paths with several dots: that is the
\* path after -o in the compile command, in the object list of the link
\* command and in the removal command; and two different sources of a target
\* are never compiled into the same object path.
C17_ObjectPathDerivation ==
    /\ \A k \in 1..Len(cmds) :
         LET t == _targets[cmds[k].t]
             objs == {ReplaceFinalExtension(s, _object_ext) : s \in Range(t.sources)}
         IN  /\ cmds[k].kind = "compile" =>
                  OutputArg(cmds[k].args)
                    = ReplaceFinalExtension(cmds[k].src, _object_ext)
             /\ cmds[k].kind \in {"link", "rm"} =>
                  objs \subseteq Range(cmds[k].args)
    /\ \A j, k \in 1..Len(cmds) :
         (/\ cmds[j].kind = "compile" /\ cmds[k].kind = "compile"
          /\ cmds[j].t = cmds[k].t /\ cmds[j].src # cmds[k].src)
           => OutputArg(cmds[j].args) # OutputArg(cmds[k].args)

\* The same for sources whose path holds a single dot.
C17_ObjectPathDerivationOneDot ==
    (\A n \in Names : \A s \in Range(_targets[n].sources) :
        Cardinality({i \in 1..Len(s) : s[i] = Dot}) = 1)
      => C17_ObjectPathDerivation

\* Two sources with different paths have been compiled into one object path.
C17_ObjectPathCollision ==
    \E j, k \in 1..Len(cmds) :
      /\ cmds[j].kind = "compile" /\ cmds[k].kind = "compile"
      /\ cmds[j].src # cmds[k].src
      /\ OutputArg(cmds[j].args) = OutputArg(cmds[k].args)

\* C18: within one build with force = false, when an archive/link command is
\* issued for a target A, every visit of a target that lists A in its deps
\* has its own archive/link command issued later in that build, once the
\* build has completed -- also when A was rebuilt during the visit of another
\* parent.
C18_RebuildReachesEveryDependent ==
    (pass.kind = "build" /\ ~pass.force /\ status = "done" /\ ~Failed(cmds)) =>
      \A k \in Links :
        \A v \in VisitIds :
          cmds[k].t \in TargetDeps(visits[v].t)
            => \E m \in OwnCmds(v, "link") : k < m

\* The same for a dependency that is reached from a single parent.
C18_RebuildReachesParent ==
    (pass.kind = "build" /\ ~pass.force /\ status = "done" /\ ~Failed(cmds)) =>
      \A k \in Links :
        \A v \in VisitIds :
          (/\ cmds[k].t \in TargetDeps(visits[v].t)
           /\ Count(visited, cmds[k].t) = 1)
            => \E m \in OwnCmds(v, "link") : k < m

\* After nothing but completed builds and touches of sources, a build has
\* completed in which a dependency was rebuilt and a target listing it was
\* reported up to date, left older than that dependency.
C18_StaleDependent ==
    /\ plain
    /\ pass.kind = "build" /\ ~pass.force /\ status = "done" /\ ~Failed(cmds)
    /\ \E k \in Links : \E v \in VisitIds :
         /\ cmds[k].t \in TargetDeps(visits[v].t)
         /\ visits[v].report = "uptodate"
         /\ fs[get_out_path(_targets[visits[v].t])]
              < fs[get_out_path(_targets[cmds[k].t])]

\* The modification time of the output of target n, -1 when it is missing.
OutputTime(n) == _get_opt_mod_time(fs, get_out_path(_targets[n]))

\* C19: after nothing but completed builds whose commands all succeeded and
\* touches of source files, when build(B, force = false) has completed, B's
\* output is not older than the output of any StaticLib Target in B.deps.
C19_OutputNotOlderThanDeps ==
    (/\ plain
     /\ pass.kind = "build" /\ ~pass.force /\ status = "done" /\ ~Failed(cmds))
      => \A d \in TargetDeps(pass.t) :
           _targets[d].type = "STATIC_LIB" => OutputTime(pass.t) >= OutputTime(d)

\* The same when every build so far was of the same target.
C19_OutputNotOlderThanDepsOneTarget ==
    (/\ plain
     /\ prev.kind = "build" => prev.t = pass.t
     /\ nev <= 2 + Cardinality(since)
     /\ pass.kind = "build" /\ ~pass.force /\ status = "done" /\ ~Failed(cmds))
      => \A d \in TargetDeps(pass.t) :
           _targets[d].type = "STATIC_LIB" => OutputTime(pass.t) >= OutputTime(d)

\* A build of B has completed with every target reported up to date while a
\* static library B depends on is newer than B's output.
C19_ReportedUpToDateButOlder ==
    /\ plain
    /\ pass.kind = "build" /\ ~pass.force /\ status = "done"
    /\ cmds = <<>> /\ AllReportedUpToDate
    /\ \E d \in TargetDeps(pass.t) :
         /\ _targets[d].type = "STATIC_LIB"
         /\ OutputTime(d) > OutputTime(pass.t)
         /\ OutputTime(pass.t) >= 0

\* ------------------------------------------------------------- termination
\* One step of the running call.
WalkStep == DepStep \/ SourceStep \/ LinkStep \/ CleanStep

\* The interpreter keeps executing the running call: every command handed to
\* the executor returns, and the next statement is then run.
FairSpec == Spec /\ WF_vars(WalkStep)

\* The number of steps an activation of target n has left when its loop over
\* deps is at position i, every recursive call included; fuel bounds the
\* depth of the recursion.
RECURSIVE WalkWork(_, _, _, _)
WalkWork(kind, n, i, fuel) ==
    LET t == _targets[n] IN
    IF i > Len(t.deps)
    THEN IF kind = "build" THEN Len(t.sources) + 1 ELSE 1
    ELSE 1 + (IF t.deps[i] \in Names /\ fuel > 0
              THEN WalkWork(kind, t.deps[i], 1, fuel - 1) ELSE 0)
           + WalkWork(kind, n, i + 1, fuel)

\* The steps frame k of the stack has left, those of the frames above it
\* not counted.
FrameWork(k) ==
    LET fr == stack[k]
        fuel == Cardinality(Names)
    IN  IF fr.pc = "sources" THEN Len(_targets[fr.t].sources) - fr.i + 2
        ELSE IF fr.pc = "link" THEN 1
        ELSE WalkWork(IF fr.pc = "clean" THEN "clean" ELSE "build", fr.t,
                      IF k = Len(stack) THEN fr.i ELSE fr.i + 1, fuel)

RECURSIVE WorkBelow(_)
WorkBelow(k) == IF k = 0 THEN 0 ELSE FrameWork(k) + WorkBelow(k - 1)

\* The steps the running call has left; 0 when no call is running.
Rank == IF status = "running" THEN WorkBelow(Len(stack)) ELSE 0

\* The steps of the whole call, and so a bound on its commands.
TotalWork ==
    IF pass.kind = "none" THEN 0
    ELSE WalkWork(pass.kind, pass.t, 1, Cardinality(Names))
           + (IF pass.kind = "clean" THEN 1 ELSE 0)

Acyclic == pass.kind # "none" /\ ~CycleReachable(pass.t)

\* C20: build and clean of a target under which the Target-to-Target
\* relation is acyclic terminate, by completing or in a fatal error, after
\* finitely many commands: the call never exhausts the stack, it can always
\* take a step while it runs, every step lowers the number of steps left,
\* the commands issued never exceed the steps of the whole call, and a
\* running call eventually stops.
C20_Termination ==
    /\ [](Acyclic =>
            /\ status # "overflow"
            /\ status = "running" => Rank > 0 /\ ENABLED WalkStep
            /\ Len(cmds) + Rank <= TotalWork)
    /\ [][(Acyclic /\ status = "running") => Rank' < Rank]_vars
    /\ (Acyclic /\ status = "running") ~> (status \in {"done", "error"})

\* A build over a shared dependency has completed after visiting four
\* targets at three depths and issuing commands.
C20_Witness ==
    /\ Acyclic /\ pass.kind = "build" /\ status = "done"
    /\ Len(visited) = 4
    /\ cmds # <<>>

\* A clean of a target with a Target dependency has completed.
C20_WitnessClean ==
    /\ Acyclic /\ pass.kind = "clean" /\ status = "done"
    /\ Len(visited) > 1

====
